---------------------------- MODULE Spec2Model ----------------------------
(***************************************************************************)
(* Model of the NPCC policy engine: PolicyEngine.calculate_impacts and     *)
(* PolicyEngine.get_baseline_state (backend/core/engine.py), the           *)
(* formatting and sanitizing helpers (backend/utils/formatters.py) and     *)
(* the reference tables (backend/data/mock_repository.py).                 *)
(*                                                                         *)
(* Numbers.  The program computes with Python floats built from short      *)
(* decimal literals.  The model keeps every quantity as an exact decimal   *)
(* fraction, an integer numerator over a power-of-ten (or 9 * power of     *)
(* ten) denominator that is fixed per quantity:                            *)
(*    cost_per_unit, cost, total_cost      tenths of $B      (CostDen)     *)
(*    temperature_impact, max_impact,                                      *)
(*    temp_impact, total_temp_mitigation   1/10000 degC      (TempDen)     *)
(*    anomaly in the tables                1/100 degC        (AnomalyDen)  *)
(* and round(x, p) is the nearest multiple of 10^-p, returned as an        *)
(* integer count of 10^-p units.  Python rounds the binary float, which    *)
(* for a decimal that lies exactly halfway (-0.0375 to 3 places) sits one  *)
(* ulp above or below the tie (or on it, and then goes to even), so the    *)
(* digit it yields there is either neighbour: round(-0.0375, 3) gives      *)
(* -0.037.  The variable tie is the side such floats fall on, chosen       *)
(* freely at the start; everywhere else the float error (about 1e-16       *)
(* relative) is far below the distance to the nearest tie and the exact    *)
(* decimal decides.  A float sum that should cancel to 0 exactly (2.4 +    *)
(* -2.4) is taken as 0.                                                    *)
(***************************************************************************)
EXTENDS Integers, Sequences, FiniteSets, TLC

VARIABLES
    historical_temperature_data,
                     \* the module's HISTORICAL_TEMPERATURE_DATA table
    policy_costs,    \* PolicyEngine.policy_costs   (the POLICY_COSTS table)
    bau_projection,  \* PolicyEngine.bau_projection (the BAU_PROJECTION table)
    baseline,        \* PolicyEngine.baseline       (the BASELINE_2026 table)
    policy_inputs,   \* argument of the latest calculate_impacts call
    result,          \* what the latest call returned, or the exception it raised
    op,              \* the latest operation called on the engine
    pending,         \* the call about to be made on the engine
    tie,             \* "up" or "down": where round() sends a decimal tie
    memo,            \* an earlier calculate_impacts call kept for comparison
    calls,           \* per caller, the call it has in progress on the engine
    route            \* the POST /api/calculate request being served

vars == <<historical_temperature_data, policy_costs, bau_projection, baseline,
          policy_inputs, result, op, pending, tie, memo, calls, route>>

---------------------------------------------------------------------------
(* Reference tables: backend/data/mock_repository.py                       *)

\* The eight lever keys in the order calculate_impacts writes them.
LeverOrder ==
    << "ev_adoption", "renewable_energy", "carbon_tax", "reforestation",
       "public_transport", "industrial_controls", "green_buildings",
       "waste_management" >>

Levers == { LeverOrder[i] : i \in 1..Len(LeverOrder) }

POLICY_COSTS ==
    [ ev_adoption |->
        [ cost_per_unit |-> 12, temperature_impact |-> -8, max_impact |-> -800,
          label |-> "EV Adoption Incentives",
          description |->
            "Subsidies, charging infrastructure, and manufacturer incentives" ],
      renewable_energy |->
        [ cost_per_unit |-> 25, temperature_impact |-> -12, max_impact |-> -1200,
          label |-> "Renewable Energy Expansion",
          description |->
            "Solar, wind, hydro infrastructure and grid upgrades" ],
      carbon_tax |->
        [ cost_per_unit |-> -8, temperature_impact |-> -15, max_impact |-> -1500,
          label |-> "Carbon Tax Implementation",
          description |->
            "Industrial emissions pricing and regulatory enforcement" ],
      reforestation |->
        [ cost_per_unit |-> 6, temperature_impact |-> -5, max_impact |-> -500,
          label |-> "Reforestation Programs",
          description |->
            "Tree planting, forest protection, and carbon sequestration" ],
      public_transport |->
        [ cost_per_unit |-> 18, temperature_impact |-> -10, max_impact |-> -1000,
          label |-> "Public Transport Expansion",
          description |->
            "Mass transit infrastructure, bus networks, and rail systems" ],
      industrial_controls |->
        [ cost_per_unit |-> 15, temperature_impact |-> -13, max_impact |-> -1300,
          label |-> "Industrial Emission Controls",
          description |->
            "Factory regulations, emission standards, and monitoring systems" ],
      green_buildings |->
        [ cost_per_unit |-> 10, temperature_impact |-> -7, max_impact |-> -700,
          label |-> "Green Building Standards",
          description |->
            "Energy-efficient construction, retrofits, and building codes" ],
      waste_management |->
        [ cost_per_unit |-> 8, temperature_impact |-> -6, max_impact |-> -600,
          label |-> "Waste Management & Recycling",
          description |->
            "Recycling programs, waste-to-energy, and landfill reduction" ] ]

\* Anomalies in hundredths of a degree.
HISTORICAL_TEMPERATURE_DATA ==
    LET a == << 62, 65, 68, 71, 66, 76, 73, 77, 64, 74, 82, 71, 75, 77, 86,
                102, 109, 101, 95, 108, 115, 98, 104, 135, 138, 118 >>
    IN  [ i \in 1..Len(a) |-> [ year |-> 1999 + i, anomaly |-> a[i] ] ]

BAU_PROJECTION ==
    LET a == << 120, 125, 131, 136, 142, 147, 153, 158, 164, 169, 175, 180,
                186, 191, 197, 202, 208, 213, 219, 224, 230, 235, 241, 246,
                252 >>
    IN  [ i \in 1..Len(a) |-> [ year |-> 2025 + i, anomaly |-> a[i] ] ]

BASELINE_2026 ==
    [ year |-> 2026,
      temperature_anomaly |-> 120,
      national_debt |-> 0,
      policies |-> [ k \in Levers |-> 0 ] ]

\* $B, compared with national_debt.
BANKRUPTCY_THRESHOLD == 1000

\* return HISTORICAL_TEMPERATURE_DATA + BAU_PROJECTION, on the tables as
\* they stand.
get_complete_trend_data(hist, bau) == hist \o bau

---------------------------------------------------------------------------
(* Arithmetic helpers                                                      *)

Abs(x) == IF x < 0 THEN -x ELSE x

Max(a, b) == IF a >= b THEN a ELSE b

Min(a, b) == IF a <= b THEN a ELSE b

Pow10(p) == CASE p = 0 -> 1 [] p = 1 -> 10 [] p = 2 -> 100 [] p = 3 -> 1000
                 [] p = 4 -> 10000

\* Denominators of the decimal fractions (see the head of the module).
CostDen == Pow10(1)
TempDen == Pow10(4)
AnomalyDen == Pow10(2)

\* The integer nearest to num/den (den > 0); on a tie the neighbour the
\* float's representation error picks (see the head of the module).
RoundNearest(num, den) ==
    LET q == num \div den
        r == num % den
    IN  IF 2 * r > den THEN q + 1
        ELSE IF 2 * r = den THEN (IF tie = "up" THEN q + 1 ELSE q)
        ELSE q

RECURSIVE SumSeq(_)
SumSeq(s) == IF s = << >> THEN 0 ELSE Head(s) + SumSeq(Tail(s))

\* f(s[1]), ..., f(s[n])
MapSeq(s, f(_)) == [ i \in 1..Len(s) |-> f(s[i]) ]

---------------------------------------------------------------------------
(* Raw input values: what a JSON body (or any Python caller) can put under *)
(* a lever key.  A number is kept in tenths, which is enough to tell       *)
(* truncation from rounding and from flooring.                             *)
(*   num        an int or a finite float              (tenths)             *)
(*   numstr     a string float() parses to a finite float, "42", "33.7"    *)
(*   text       a string float() rejects, "abc", ""   (ValueError)         *)
(*   null       None                                  (TypeError)          *)
(*   container  a list or a dict                      (TypeError)          *)
(*   nan        float("nan") or the string "nan"                           *)
(*   inf        +/- infinity as a float or as a string such as "inf",      *)
(*              "-inf", "1e400"; tenths carries the sign only              *)

Raw(kind, tenths) == [ kind |-> kind, tenths |-> tenths ]

\* float(value): the float, or the exception float() raises.
float(value) ==
    CASE value.kind \in {"num", "numstr"} ->
            [ exc |-> "none", fkind |-> "finite", tenths |-> value.tenths ]
      [] value.kind = "nan" ->
            [ exc |-> "none", fkind |-> "nan", tenths |-> 0 ]
      [] value.kind = "inf" ->
            [ exc |-> "none", fkind |-> "inf", tenths |-> value.tenths ]
      [] value.kind = "text" ->
            [ exc |-> "ValueError", fkind |-> "none", tenths |-> 0 ]
      [] value.kind \in {"null", "container"} ->
            [ exc |-> "TypeError", fkind |-> "none", tenths |-> 0 ]

\* int(f) of a float: truncation toward zero; ValueError for NaN and
\* OverflowError for an infinity.
int(f) ==
    CASE f.fkind = "finite" ->
            [ exc |-> "none",
              n |-> IF f.tenths >= 0 THEN f.tenths \div 10
                                     ELSE -((-f.tenths) \div 10) ]
      [] f.fkind = "nan" -> [ exc |-> "ValueError", n |-> 0 ]
      [] f.fkind = "inf" -> [ exc |-> "OverflowError", n |-> 0 ]

\* sanitize_slider_value(value): [exc |-> "none", level |-> n] when it
\* returns n, [exc |-> e, level |-> 0] when exception e leaves it.
sanitize_slider_value(value) ==
    LET num_value == float(value)
        truncated == int(num_value)
    IN  IF num_value.exc \in {"ValueError", "TypeError"}
            THEN [ exc |-> "none", level |-> 0 ]
        ELSE IF truncated.exc \in {"ValueError", "TypeError"}
            THEN [ exc |-> "none", level |-> 0 ]
        ELSE IF truncated.exc # "none"
            THEN [ exc |-> truncated.exc, level |-> 0 ]
        ELSE [ exc |-> "none", level |-> Max(0, Min(100, truncated.n)) ]

---------------------------------------------------------------------------
(* Formatting helpers: backend/utils/formatters.py.  A value is the        *)
(* fraction num/den; a formatted string is the record of its parts.        *)

\* round(float(value), precision), in units of 10^-precision.
round_to_precision(num, den, precision) ==
    RoundNearest(num * Pow10(precision), den)

\* The digits f"{abs(x):.{decimals}f}" prints for x = num/den, in units of
\* 10^-decimals: abs() mirrors the float, so a tie goes where it goes for x.
PrintedDigits(num, den, decimals) == Abs(RoundNearest(num * Pow10(decimals), den))

\* The two thresholds tested with > instead of >=.
format_currency_strict(num, den) ==
    LET abs_value == Abs(num)
        digits ==
            IF abs_value > 1000 * den
                THEN [ d |-> PrintedDigits(num, den * 1000, 2), u |-> "T" ]
            ELSE IF abs_value > 1 * den
                THEN [ d |-> PrintedDigits(num, den, 2), u |-> "B" ]
            ELSE [ d |-> PrintedDigits(num * 1000, den, 2), u |-> "M" ]
    IN  [ negative |-> num < 0, digits |-> digits.d, suffix |-> digits.u ]

\* f"${abs_value:.2f}<suffix>" with a leading "-" for a negative value:
\* negative is the "-" before the "$", digits the printed amount in
\* hundredths of the unit the suffix names.
format_currency(num, den) ==
    LET abs_value == Abs(num)
        digits ==
            IF abs_value >= 1000 * den
                THEN [ d |-> PrintedDigits(num, den * 1000, 2), u |-> "T" ]
            ELSE IF abs_value >= 1 * den
                THEN [ d |-> PrintedDigits(num, den, 2), u |-> "B" ]
            ELSE [ d |-> PrintedDigits(num * 1000, den, 2), u |-> "M" ]
    IN  [ negative |-> num < 0, digits |-> digits.d, suffix |-> digits.u ]

\* f"{sign}{value:.{decimals}f}°C": sign is "+" for value >= 0 and a
\* negative value prints its own "-"; digits is the printed magnitude in
\* units of 10^-decimals.
format_temperature(num, den, decimals) ==
    [ sign |-> IF num >= 0 THEN "+" ELSE "-",
      digits |-> PrintedDigits(num, den, decimals),
      decimals |-> decimals ]

\* What the docstring announces: 0 when the cost is 0 or negative.
calculate_efficiency_index_zero_for_revenue(temperature_impact, fiscal_cost) ==
    IF fiscal_cost <= 0 THEN 0
    ELSE RoundNearest(Abs(temperature_impact) * CostDen * 1000 * Pow10(2),
                       TempDen * fiscal_cost)

\* calculate_efficiency_index(temperature_impact, fiscal_cost), in
\* hundredths: |impact| * 1000 unrounded when the cost is <= 0 (an exact
\* number of tenths for the table's impacts), else
\* round(|impact| / cost * 1000, 2).
calculate_efficiency_index(temperature_impact, fiscal_cost) ==
    IF fiscal_cost <= 0
        THEN (Abs(temperature_impact) * 1000 * Pow10(2)) \div TempDen
    ELSE RoundNearest(Abs(temperature_impact) * CostDen * 1000 * Pow10(2),
                       TempDen * fiscal_cost)

---------------------------------------------------------------------------
(* PolicyEngine: backend/core/engine.py                                    *)

\* The thresholds read as percentages: 100, 50 and 20 instead of 1.0, 0.5
\* and 0.2.
interpret_efficiency_percent(efficiency_score) ==
    IF efficiency_score >= 100 * 100 THEN "Excellent"
    ELSE IF efficiency_score >= 50 * 100 THEN "Good"
    ELSE IF efficiency_score >= 20 * 100 THEN "Moderate"
    ELSE "Poor"

\* PolicyEngine._interpret_efficiency, the score in hundredths.
interpret_efficiency(efficiency_score) ==
    IF efficiency_score >= 100 THEN "Excellent"
    ELSE IF efficiency_score >= 50 THEN "Good"
    ELSE IF efficiency_score >= 20 THEN "Moderate"
    ELSE "Poor"

\* policy_inputs is a Python dict: a sequence of [key, value] pairs with
\* distinct keys, in insertion order.  dict.get(key, default).
DictGet(inputs, key, default) ==
    IF \E i \in 1..Len(inputs) : inputs[i].key = key
        THEN inputs[CHOOSE i \in 1..Len(inputs) : inputs[i].key = key].value
    ELSE default

\* cost_per_unit taken as ten times what the table holds ($12B a level for
\* $1.2B).
LeverCostTenfold(pc, key, level) == pc[key].cost_per_unit * level * 10

\* cost = policy_data["cost_per_unit"] * level            (tenths of $B)
LeverCost(pc, key, level) == pc[key].cost_per_unit * level

\* The cap taken on magnitudes, the sign lost.
LeverTempImpactMagnitude(pc, key, level) ==
    Min(Abs(pc[key].temperature_impact * level), Abs(pc[key].max_impact))

\* The cap taken with min: of two negative numbers, the larger reduction.
LeverTempImpactMin(pc, key, level) ==
    Min(pc[key].temperature_impact * level, pc[key].max_impact)

\* temp_impact = max(policy_data["temperature_impact"] * level,
\*                   policy_data["max_impact"])            (1/10000 degC)
LeverTempImpact(pc, key, level) ==
    Max(pc[key].temperature_impact * level, pc[key].max_impact)

\* The ramp left uncapped: the factor keeps growing after 2035.
generate_trend_line_uncapped(bau, total_mitigation) ==
    [ i \in 1..Len(bau) |->
        LET mitigation9 == total_mitigation * (bau[i].year - 2026)
            adjusted9 == bau[i].anomaly * (TempDen \div AnomalyDen) * 9 + mitigation9
        IN  [ year |-> bau[i].year,
              anomaly |-> round_to_precision(adjusted9, 9 * TempDen, 3),
              anomaly_formatted |-> format_temperature(adjusted9, 9 * TempDen, 2),
              bau_anomaly |-> round_to_precision(bau[i].anomaly, AnomalyDen, 3),
              mitigation_applied |->
                  round_to_precision(mitigation9, 9 * TempDen, 3) ] ]

\* The ramp counted from 2025: the 2026 point already mitigated.
generate_trend_line_from_2025(bau, total_mitigation) ==
    [ i \in 1..Len(bau) |->
        LET mitigation9 == total_mitigation * Min(9, bau[i].year - 2025)
            adjusted9 == bau[i].anomaly * (TempDen \div AnomalyDen) * 9 + mitigation9
        IN  [ year |-> bau[i].year,
              anomaly |-> round_to_precision(adjusted9, 9 * TempDen, 3),
              anomaly_formatted |-> format_temperature(adjusted9, 9 * TempDen, 2),
              bau_anomaly |-> round_to_precision(bau[i].anomaly, AnomalyDen, 3),
              mitigation_applied |->
                  round_to_precision(mitigation9, 9 * TempDen, 3) ] ]

\* PolicyEngine._generate_trend_line(total_mitigation).
\* mitigation_factor = min(1.0, years_from_start / 9.0) is kept as its
\* numerator over 9, so total_mitigation * mitigation_factor and
\* adjusted_temp are fractions over 9 * TempDen.
generate_trend_line(bau, total_mitigation) ==
    [ i \in 1..Len(bau) |->
        LET year == bau[i].year
            bau_temp == bau[i].anomaly
            years_from_start == year - 2026
            factor9 == Min(9, years_from_start)
            mitigation9 == total_mitigation * factor9
            adjusted9 == bau_temp * (TempDen \div AnomalyDen) * 9 + mitigation9
        IN  [ year |-> year,
              anomaly |-> round_to_precision(adjusted9, 9 * TempDen, 3),
              anomaly_formatted |-> format_temperature(adjusted9, 9 * TempDen, 2),
              bau_anomaly |-> round_to_precision(bau_temp, AnomalyDen, 3),
              mitigation_applied |->
                  round_to_precision(mitigation9, 9 * TempDen, 3) ] ]

\* The loop run over the request's own keys, in the request's order.
PolicyKeysOfRequest(inputs) ==
    LET given == SelectSeq(MapSeq(inputs, LAMBDA e : e.key), LAMBDA k : k \in Levers)
        rest == SelectSeq(LeverOrder,
                          LAMBDA k : \A i \in 1..Len(given) : given[i] # k)
    IN  given \o rest

\* The keys of the policies dict calculate_impacts builds, in the order
\* its loop meets them: the order of the dict literal, whatever the input.
PolicyKeys(inputs) == LeverOrder

\* A loop that does not skip the levers at level 0.
ActiveLeversNoSkip(order, policies) == order

\* The levers the loop does not skip (if level == 0: continue), in order.
ActiveLevers(order, policies) == SelectSeq(order, LAMBDA k : policies[k] # 0)

\* Every lever with a cost, of either sign, put in the treemap.
InTreemapNonZero(cost) == cost # 0

\* if cost > 0: fiscal_treemap.append(...)
InTreemap(cost) == cost > 0

\* The share cut to 1 decimal instead of rounded.
TreemapPercentageTruncated(value, total_positive_cost) ==
    (value * 100 * 10) \div total_positive_cost

\* item["percentage"] = round_to_precision(
\*     (item["value"] / total_positive_cost) * 100, 1)   (tenths of a percent)
TreemapPercentage(value, total_positive_cost) ==
    round_to_precision(value * 100, total_positive_cost, 1)

\* The threshold a digit short: 100 instead of 1000.
BankruptcyFlagAt100(national_debt) == national_debt * 10 > BANKRUPTCY_THRESHOLD * CostDen

\* bankruptcy_flag = national_debt > BANKRUPTCY_THRESHOLD, national_debt
\* in tenths of $B.
BankruptcyFlag(national_debt) == national_debt > BANKRUPTCY_THRESHOLD * CostDen

\* Every key of the request sanitized into policies, beside the eight.
SanitizeEveryKey(inputs) ==
    [ k \in Levers \cup { inputs[i].key : i \in 1..Len(inputs) } |->
        sanitize_slider_value(DictGet(inputs, k, Raw("num", 0))) ]

\* policies = { key: sanitize_slider_value(policy_inputs.get(key, 0)) } for
\* the eight keys of the dict literal: per key, what sanitize_slider_value
\* returned or the exception that left it.
SanitizeInputs(inputs) ==
    [ k \in Levers |-> sanitize_slider_value(DictGet(inputs, k, Raw("num", 0))) ]

\* The exception that ends the building of policies: that of the first
\* key, in the literal's order, whose value makes sanitize_slider_value
\* raise; "none" when every key is sanitized.
SanitizeFailure(sanitized) ==
    LET failed == { i \in 1..Len(LeverOrder) : sanitized[LeverOrder[i]].exc # "none" }
    IN  IF failed = {} THEN "none"
        ELSE sanitized[LeverOrder[CHOOSE i \in failed : \A j \in failed : i <= j]].exc

\* PolicyEngine.calculate_impacts(policy_inputs) on an engine whose tables
\* are pc and bau: the dict it returns (status "returned"), or the
\* exception that leaves it (status "raised").
\*   cost, total_cost, national_debt, value   cents of $B
\*   temperature_impact, temperature_mitigation, anomaly, bau_anomaly,
\*   mitigation_applied                        1/1000 degC
\*   percentage   tenths of a percent;  efficiency   hundredths
calculate_impacts(pc, bau, inputs) ==
    LET sanitized == SanitizeInputs(inputs)
        policies == [ k \in DOMAIN sanitized |-> sanitized[k].level ]
        active == ActiveLevers(PolicyKeys(inputs), policies)
        n == Len(active)
        cost(i) == LeverCost(pc, active[i], policies[active[i]])
        temp_impact(i) == LeverTempImpact(pc, active[i], policies[active[i]])
        total_cost == SumSeq([ i \in 1..n |-> cost(i) ])
        total_temp_mitigation == SumSeq([ i \in 1..n |-> temp_impact(i) ])
        policy_breakdown ==
            [ i \in 1..n |->
                [ policy |-> pc[active[i]].label,
                  level |-> policies[active[i]],
                  cost |-> round_to_precision(cost(i), CostDen, 2),
                  cost_formatted |-> format_currency(cost(i), CostDen),
                  temperature_impact |-> round_to_precision(temp_impact(i), TempDen, 3),
                  temperature_formatted |-> format_temperature(temp_impact(i), TempDen, 3),
                  description |-> pc[active[i]].description ] ]
        positive == SelectSeq([ i \in 1..n |-> i ], LAMBDA i : InTreemap(cost(i)))
        treemap0 ==
            [ j \in 1..Len(positive) |->
                [ name |-> pc[active[positive[j]]].label,
                  value |-> round_to_precision(cost(positive[j]), CostDen, 2),
                  formatted |-> format_currency(cost(positive[j]), CostDen),
                  percentage |-> 0 ] ]
        total_positive_cost == SumSeq([ j \in 1..Len(treemap0) |-> treemap0[j].value ])
        fiscal_treemap ==
            IF total_positive_cost > 0
                THEN [ j \in 1..Len(treemap0) |->
                        [ treemap0[j] EXCEPT !.percentage =
                            TreemapPercentage(treemap0[j].value, total_positive_cost) ] ]
            ELSE treemap0
        efficiency_metrics ==
            [ i \in 1..n |->
                LET efficiency == calculate_efficiency_index(temp_impact(i), cost(i))
                IN  [ policy |-> pc[active[i]].label,
                      efficiency |-> efficiency,
                      interpretation |-> interpret_efficiency(efficiency) ] ]
        national_debt == total_cost
        bankruptcy_flag == BankruptcyFlag(national_debt)
    IN  IF SanitizeFailure(sanitized) # "none"
            THEN [ status |-> "raised", exception |-> SanitizeFailure(sanitized) ]
        ELSE [ status |-> "returned",
               total_cost |-> round_to_precision(total_cost, CostDen, 2),
               total_cost_formatted |-> format_currency(total_cost, CostDen),
               temperature_mitigation |->
                   round_to_precision(total_temp_mitigation, TempDen, 3),
               temperature_mitigation_formatted |->
                   format_temperature(total_temp_mitigation, TempDen, 3),
               national_debt |-> round_to_precision(national_debt, CostDen, 2),
               national_debt_formatted |-> format_currency(national_debt, CostDen),
               bankruptcy_flag |-> bankruptcy_flag,
               policy_breakdown |-> policy_breakdown,
               trend_line |-> generate_trend_line(bau, total_temp_mitigation),
               fiscal_treemap |-> fiscal_treemap,
               efficiency_index |-> efficiency_metrics,
               policies_applied |-> policies,
               warning_message |->
                   IF bankruptcy_flag THEN "ECONOMIC COLLAPSE IMMINENT" ELSE "None" ]

\* The historical series cut at year <= 2026 instead of year < 2026.
get_baseline_state_through_2026(bl, hist, bau) ==
    LET point(p) == [ year |-> p.year,
                      anomaly |-> p.anomaly,
                      anomaly_formatted |-> format_temperature(p.anomaly, AnomalyDen, 2) ]
        complete == get_complete_trend_data(hist, bau)
        historical == SelectSeq(complete, LAMBDA p : p.year <= 2026)
    IN  [ status |-> "returned",
          year |-> bl.year,
          temperature_anomaly |-> bl.temperature_anomaly,
          temperature_formatted |->
              format_temperature(bl.temperature_anomaly, AnomalyDen, 2),
          national_debt |-> bl.national_debt,
          national_debt_formatted |-> format_currency(bl.national_debt, 1),
          policies |-> bl.policies,
          bau_projection |-> [ i \in 1..Len(bau) |-> point(bau[i]) ],
          historical_data |-> [ i \in 1..Len(historical) |-> point(historical[i]) ] ]

\* PolicyEngine.get_baseline_state() on an engine whose tables are bl, bau,
\* the historical table being hist.
get_baseline_state(bl, hist, bau) ==
    LET point(p) == [ year |-> p.year,
                      anomaly |-> p.anomaly,
                      anomaly_formatted |-> format_temperature(p.anomaly, AnomalyDen, 2) ]
        complete == get_complete_trend_data(hist, bau)
        historical == SelectSeq(complete, LAMBDA p : p.year < 2026)
    IN  [ status |-> "returned",
          year |-> bl.year,
          temperature_anomaly |-> bl.temperature_anomaly,
          temperature_formatted |->
              format_temperature(bl.temperature_anomaly, AnomalyDen, 2),
          national_debt |-> bl.national_debt,
          national_debt_formatted |-> format_currency(bl.national_debt, 1),
          policies |-> bl.policies,
          bau_projection |-> [ i \in 1..Len(bau) |-> point(bau[i]) ],
          historical_data |-> [ i \in 1..Len(historical) |-> point(historical[i]) ] ]

---------------------------------------------------------------------------
(* The requests the model sends                                            *)

\* How many levers of one request carry a raw value other than a plain
\* in-range integer.
MaxOverrides == 1

\* A level strictly inside 1..99 for every lever.
MidLevel ==
    [ ev_adoption |-> 25, renewable_energy |-> 75, carbon_tax |-> 50,
      reforestation |-> 75, public_transport |-> 60, industrial_controls |-> 40,
      green_buildings |-> 20, waste_management |-> 25 ]

\* Every lever at 0, at its mid level or at 100, independently.
GridVectors ==
    { [ k \in Levers |-> CASE c[k] = 0 -> 0 [] c[k] = 1 -> MidLevel[k] [] c[k] = 2 -> 100 ] :
        c \in [ Levers -> 0..2 ] }

Reverse(s) == [ i \in 1..Len(s) |-> s[Len(s) + 1 - i] ]


\* The integer n as a raw value.
LevelValue(n) == Raw("num", 10 * n)

\* The dict with every lever key, in the given key order, at integer levels.
LevelRequest(order, levels) ==
    [ i \in 1..Len(order) |-> [ key |-> order[i], value |-> LevelValue(levels[order[i]]) ] ]

GridRequests == { LevelRequest(LeverOrder, v) : v \in GridVectors }

\* The same dict built in the opposite key order, every lever at 0 or at
\* its mid level.
ReversedRequests ==
    { LevelRequest(Reverse(LeverOrder), [ k \in Levers |-> IF k \in S THEN MidLevel[k] ELSE 0 ]) :
        S \in SUBSET Levers }

\* Numbers in tenths: below 0, fractions that truncate, above 100.
RawNumbers == { -1005, -15, -5, 9, 19, 337, 999, 1009, 1500 }

RawValues ==
    { Raw("num", t) : t \in RawNumbers } \cup
    { Raw("numstr", 420), Raw("numstr", 337), Raw("numstr", -70) } \cup
    { Raw("text", 0), Raw("null", 0), Raw("container", 0), Raw("nan", 0),
      Raw("inf", 1), Raw("inf", -1) }

\* base: "mid" is every lever at its mid level, "absent" is an empty dict.
\* The levers of S carry the raw values f instead.
OverrideRequest(base, S, f) ==
    LET keys == IF base = "mid" THEN LeverOrder
                ELSE SelectSeq(LeverOrder, LAMBDA k : k \in S)
    IN  [ i \in 1..Len(keys) |->
            [ key |-> keys[i],
              value |-> IF keys[i] \in S THEN f[keys[i]]
                        ELSE LevelValue(MidLevel[keys[i]]) ] ]

OverrideRequests ==
    UNION { { OverrideRequest(base, S, f) : f \in [ S -> RawValues ] } :
            base \in {"mid", "absent"},
            S \in { T \in SUBSET Levers : Cardinality(T) <= MaxOverrides } }

Requests == GridRequests \cup ReversedRequests \cup OverrideRequests

\* Keys that are none of the eight: another policy, a lever key in capitals.
UnknownKeys == { "nuclear_power", "EV_ADOPTION" }

\* A request of lever keys with one unknown key put before or after them:
\* the lever part is empty, every lever at its mid level, one lever at 0 or
\* one lever as a numeric string; the unknown key carries a level, text or
\* an infinity.
UnknownKeyRequests ==
    LET lever_part ==
            { << >>, LevelRequest(LeverOrder, MidLevel),
              << [ key |-> "ev_adoption", value |-> LevelValue(0) ] >>,
              << [ key |-> "carbon_tax", value |-> Raw("numstr", 337) ] >> }
        extra == { << [ key |-> u, value |-> w ] >> :
                     u \in UnknownKeys,
                     w \in { LevelValue(50), Raw("text", 0), Raw("inf", 1) } }
    IN  { e \o r : e \in extra, r \in lever_part } \cup
        { r \o e : e \in extra, r \in lever_part }

\* The requests of the runs that make several calls: no key at all, every
\* lever at its mid level, one of two levers alone with any raw value or
\* at 0, and the requests with an unknown key.
RepeatRequests ==
    { << >>, LevelRequest(LeverOrder, MidLevel),
      << [ key |-> "ev_adoption", value |-> LevelValue(0) ] >> } \cup
    { << [ key |-> k, value |-> v ] >> :
        k \in {"ev_adoption", "carbon_tax"}, v \in RawValues } \cup
    UnknownKeyRequests

---------------------------------------------------------------------------
(* The engine as a state machine.  app.py builds one PolicyEngine and      *)
(* hands it each request in turn: pending is the call being made.          *)

NoRequest == [ call |-> "none" ]

CalculateRequest(inp) == [ call |-> "calculate_impacts", inputs |-> inp ]

BaselineRequest == [ call |-> "get_baseline_state" ]

NoResult == [ status |-> "none" ]

NoMemo == [ status |-> "none" ]

\* The callers that share the engine (request threads of the server).
NumCallers == 2

Callers == 1..NumCallers

\* A caller with no call in progress.
IdleCall == [ pc |-> "idle" ]

\* No request on the route.
IdleRoute == [ pc |-> "idle" ]

\* The module's tables as loaded, and PolicyEngine.__init__: the engine's
\* fields alias them.
EngineInit ==
    /\ historical_temperature_data = HISTORICAL_TEMPERATURE_DATA
    /\ policy_costs = POLICY_COSTS
    /\ bau_projection = BAU_PROJECTION
    /\ baseline = BASELINE_2026
    /\ policy_inputs = << >>
    /\ result = NoResult
    /\ op = "none"
    /\ memo = NoMemo
    /\ calls = [ c \in Callers |-> IdleCall ]
    /\ route = IdleRoute
    /\ tie \in {"up", "down"}

\* A fresh engine and one call to make, any request of the model.
Init ==
    /\ EngineInit
    /\ pending \in { CalculateRequest(inp) : inp \in Requests } \cup { BaselineRequest }

\* The trend line built in place: each adjusted anomaly written back into
\* the BAU point it was computed from (to the table's 2 decimals).
CalculateImpactsInPlace ==
    /\ pending.call = "calculate_impacts"
    /\ policy_inputs' = pending.inputs
    /\ result' = calculate_impacts(policy_costs, bau_projection, pending.inputs)
    /\ op' = "calculate_impacts"
    /\ pending' = NoRequest
    /\ bau_projection' =
          IF result'.status = "returned"
              THEN [ i \in 1..Len(bau_projection) |->
                      [ bau_projection[i] EXCEPT
                          !.anomaly = RoundNearest(result'.trend_line[i].anomaly, 10) ] ]
          ELSE bau_projection
    /\ UNCHANGED <<historical_temperature_data, policy_costs, baseline, tie,
                   memo, calls, route>>

\* The call calculate_impacts(pending.inputs): it reads the tables and
\* writes none of them.
CalculateImpacts ==
    /\ pending.call = "calculate_impacts"
    /\ policy_inputs' = pending.inputs
    /\ result' = calculate_impacts(policy_costs, bau_projection, pending.inputs)
    /\ op' = "calculate_impacts"
    /\ pending' = NoRequest
    /\ UNCHANGED <<historical_temperature_data, policy_costs, bau_projection,
                   baseline, tie, memo, calls, route>>

\* The call get_baseline_state(): no argument, no write.
GetBaselineState ==
    /\ pending.call = "get_baseline_state"
    /\ policy_inputs' = << >>
    /\ result' = get_baseline_state(baseline, historical_temperature_data,
                                     bau_projection)
    /\ op' = "get_baseline_state"
    /\ pending' = NoRequest
    /\ UNCHANGED <<historical_temperature_data, policy_costs, bau_projection,
                   baseline, tie, memo, calls, route>>

Next == CalculateImpacts \/ GetBaselineState

Spec == Init /\ [][Next]_vars

\* Runs of several calls on the one engine.  The next call arrives once
\* the previous one has returned; what it returned is then gone, unless
\* Remember kept it in memo to compare a later call with it.
Arrive ==
    /\ pending = NoRequest
    /\ pending' \in { CalculateRequest(inp) : inp \in RepeatRequests }
                        \cup { BaselineRequest }
    /\ policy_inputs' = << >>
    /\ result' = NoResult
    /\ op' = "none"
    /\ UNCHANGED <<historical_temperature_data, policy_costs, bau_projection,
                   baseline, tie, memo, calls, route>>

Remember ==
    /\ op = "calculate_impacts"
    /\ memo = NoMemo
    /\ memo' = [ status |-> "kept", inputs |-> policy_inputs, result |-> result ]
    /\ UNCHANGED <<historical_temperature_data, policy_costs, bau_projection,
                   baseline, policy_inputs, result, op, pending, tie, calls,
                   route>>

InitRepeat == EngineInit /\ pending = NoRequest

NextRepeat == Arrive \/ CalculateImpacts \/ GetBaselineState \/ Remember

SpecRepeat == InitRepeat /\ [][NextRepeat]_vars

---------------------------------------------------------------------------
(* format_currency as a function of its own: besides the amounts the       *)
(* engine formats, the call format_currency(value) on amounts of any size. *)

\* The amounts are kept in thousandths of $B.
CurrencyDen == Pow10(3)

\* Magnitudes in thousandths of $B: zero, below a cent of a million, around
\* $1B and $1000B, halfway between two printed digits, and beyond.
CurrencyMagnitudes ==
    { 0, 1, 4, 5, 6, 500, 994, 995, 999, 1000, 1001, 1004, 1005, 1006, 2675,
      40000, 940000, 999994, 999995, 999999, 1000000, 1000001, 1004999,
      1005000, 1234567, 9999999 }

CurrencyValues == CurrencyMagnitudes \cup { -m : m \in CurrencyMagnitudes }

FormatRequest(thousandths) ==
    [ call |-> "format_currency", value |-> thousandths ]

\* The call format_currency(pending.value), decimals left at 2.
FormatCurrency ==
    /\ pending.call = "format_currency"
    /\ policy_inputs' = << >>
    /\ result' = [ status |-> "returned", value |-> pending.value,
                   formatted |-> format_currency(pending.value, CurrencyDen) ]
    /\ op' = "format_currency"
    /\ pending' = NoRequest
    /\ UNCHANGED <<historical_temperature_data, policy_costs, bau_projection,
                   baseline, tie, memo, calls, route>>

\* A fresh engine and one call to make: a request to the engine or an
\* amount to format.
InitFormat ==
    /\ EngineInit
    /\ pending \in { CalculateRequest(inp) : inp \in Requests }
                       \cup { BaselineRequest }
                       \cup { FormatRequest(v) : v \in CurrencyValues }

NextFormat == CalculateImpacts \/ GetBaselineState \/ FormatCurrency

SpecFormat == InitFormat /\ [][NextFormat]_vars

---------------------------------------------------------------------------
(* Several callers on the one engine.  A call keeps its arguments and its  *)
(* locals (policies, the lists, the totals) to itself; what the callers    *)
(* share is the engine's tables, which a call reads at different moments:  *)
(* policy_costs in the loop over the levers, bau_projection when it builds *)
(* the trend line.  The steps of different callers interleave freely.      *)

\* The requests of these runs.
ConcurrentRequests ==
    { << >>,
      LevelRequest(LeverOrder, MidLevel),
      << [ key |-> "ev_adoption", value |-> LevelValue(100) ] >>,
      << [ key |-> "carbon_tax", value |-> Raw("inf", 1) ] >> }

\* Some caller other than c is inside a call.
OthersInFlight(c) ==
    \E d \in Callers \ {c} : calls[d].pc \in {"sanitized", "looped", "baseline"}

\* Caller c enters calculate_impacts(inp) and builds its policies dict
\* (engine.py 59-69): local work, which an infinite value ends with the
\* exception leaving the call.
CallCalculate(c) ==
    /\ calls[c].pc = "idle"
    /\ \E inp \in ConcurrentRequests :
          LET failure == SanitizeFailure(SanitizeInputs(inp))
          IN  calls' = [ calls EXCEPT ![c] =
                  IF failure # "none"
                      THEN [ pc |-> "done", request |-> CalculateRequest(inp),
                             overlapped |-> OthersInFlight(c),
                             result |-> [ status |-> "raised", exception |-> failure ] ]
                  ELSE [ pc |-> "sanitized", request |-> CalculateRequest(inp),
                         overlapped |-> OthersInFlight(c) ] ]
    /\ UNCHANGED <<historical_temperature_data, policy_costs, bau_projection,
                   baseline, policy_inputs, result, op, pending, tie, memo,
                   route>>

\* The loop over the levers and the treemap percentages (engine.py
\* 71-128): it reads self.policy_costs, as it stands now, into the call's
\* own lists and totals.
ImpactLoop(c) ==
    /\ calls[c].pc = "sanitized"
    /\ calls' = [ calls EXCEPT ![c] =
          [ pc |-> "looped", request |-> calls[c].request,
            overlapped |-> calls[c].overlapped \/ OthersInFlight(c),
            seen_costs |-> policy_costs ] ]
    /\ UNCHANGED <<historical_temperature_data, policy_costs, bau_projection,
                   baseline, policy_inputs, result, op, pending, tie, memo,
                   route>>

\* The trend line written back into self.bau_projection as it is built.
TrendLineInPlace(c) ==
    /\ calls[c].pc = "looped"
    /\ LET r == calculate_impacts(calls[c].seen_costs, bau_projection,
                                  calls[c].request.inputs)
       IN  /\ calls' = [ calls EXCEPT ![c] =
                  [ pc |-> "done", request |-> calls[c].request,
                    overlapped |-> calls[c].overlapped \/ OthersInFlight(c),
                    result |-> r ] ]
           /\ bau_projection' =
                  [ i \in 1..Len(bau_projection) |->
                      [ bau_projection[i] EXCEPT
                          !.anomaly = RoundNearest(r.trend_line[i].anomaly, 10) ] ]
    /\ UNCHANGED <<historical_temperature_data, policy_costs, baseline,
                   policy_inputs, result, op, pending, tie, memo, route>>

\* The trend line, the bankruptcy check and the return (engine.py
\* 130-152): it reads self.bau_projection, as it stands now, and returns
\* the dict made of the call's own lists.
TrendLine(c) ==
    /\ calls[c].pc = "looped"
    /\ calls' = [ calls EXCEPT ![c] =
          [ pc |-> "done", request |-> calls[c].request,
            overlapped |-> calls[c].overlapped \/ OthersInFlight(c),
            result |-> calculate_impacts(calls[c].seen_costs, bau_projection,
                                         calls[c].request.inputs) ] ]
    /\ UNCHANGED <<historical_temperature_data, policy_costs, bau_projection,
                   baseline, policy_inputs, result, op, pending, tie, memo,
                   route>>

\* Caller c enters get_baseline_state().
CallBaseline(c) ==
    /\ calls[c].pc = "idle"
    /\ calls' = [ calls EXCEPT ![c] =
          [ pc |-> "baseline", request |-> BaselineRequest,
            overlapped |-> OthersInFlight(c) ] ]
    /\ UNCHANGED <<historical_temperature_data, policy_costs, bau_projection,
                   baseline, policy_inputs, result, op, pending, tie, memo,
                   route>>

\* The dict get_baseline_state builds (engine.py 213-237) from
\* self.baseline, self.bau_projection and the historical table, as they
\* stand now.
BaselineState(c) ==
    /\ calls[c].pc = "baseline"
    /\ calls' = [ calls EXCEPT ![c] =
          [ pc |-> "done", request |-> calls[c].request,
            overlapped |-> calls[c].overlapped \/ OthersInFlight(c),
            result |-> get_baseline_state(baseline, historical_temperature_data,
                                          bau_projection) ] ]
    /\ UNCHANGED <<historical_temperature_data, policy_costs, bau_projection,
                   baseline, policy_inputs, result, op, pending, tie, memo,
                   route>>

\* The caller has its answer and is free for its next call.
Return(c) ==
    /\ calls[c].pc = "done"
    /\ calls' = [ calls EXCEPT ![c] = IdleCall ]
    /\ UNCHANGED <<historical_temperature_data, policy_costs, bau_projection,
                   baseline, policy_inputs, result, op, pending, tie, memo,
                   route>>

InitConcurrent == EngineInit /\ pending = NoRequest

NextConcurrent ==
    \E c \in Callers :
        \/ CallCalculate(c)
        \/ ImpactLoop(c)
        \/ TrendLine(c)
        \/ CallBaseline(c)
        \/ BaselineState(c)
        \/ Return(c)

SpecConcurrent == InitConcurrent /\ [][NextConcurrent]_vars

---------------------------------------------------------------------------
(* The route POST /api/calculate (app.py, calculate_policy_impact): the    *)
(* request body, what request.get_json() makes of it, the test             *)
(* "if not policy_inputs", the call of the engine and the one response     *)
(* each path returns.                                                      *)

\* The Python value a JSON body parses to.
JsonNone == [ kind |-> "none" ]
JsonDict(items) == [ kind |-> "dict", items |-> items ]
JsonList(len) == [ kind |-> "list", len |-> len ]
JsonStr(len) == [ kind |-> "str", len |-> len ]
JsonInt(n) == [ kind |-> "int", n |-> n ]
JsonBool(b) == [ kind |-> "bool", b |-> b ]

\* What comes in: a body that is not declared as JSON (or no body at
\* all), a body that is not well-formed JSON, or a JSON document.
NotJsonBody == [ wire |-> "not_json" ]
MalformedBody == [ wire |-> "malformed" ]
JsonBody(v) == [ wire |-> "json", value |-> v ]

\* The JSON documents sent: null, objects (the empty one among them),
\* arrays, strings, numbers and booleans, empty or zero and not.
JsonValues ==
    { JsonNone, JsonList(0), JsonList(2), JsonStr(0), JsonStr(3),
      JsonInt(0), JsonInt(5), JsonBool(FALSE), JsonBool(TRUE) } \cup
    { JsonDict(inp) : inp \in RepeatRequests }

Bodies == { NotJsonBody, MalformedBody } \cup { JsonBody(v) : v \in JsonValues }

\* request.get_json(): the outcomes it can have for a body.  A body not
\* declared as JSON gives None or raises UnsupportedMediaType, by the
\* version of Flask installed; a malformed one raises BadRequest.
get_json(body) ==
    CASE body.wire = "not_json" ->
            { [ exc |-> "none", value |-> JsonNone ],
              [ exc |-> "UnsupportedMediaType", value |-> JsonNone ] }
      [] body.wire = "malformed" ->
            { [ exc |-> "BadRequest", value |-> JsonNone ] }
      [] body.wire = "json" ->
            { [ exc |-> "none", value |-> body.value ] }

\* The test reduced to "policy_inputs is None".
IsNone(v) == v.kind = "none"

\* not policy_inputs: Python's truth value of the parsed body, negated.
IsFalsy(v) ==
    CASE v.kind = "none" -> TRUE
      [] v.kind = "dict" -> v.items = << >>
      [] v.kind = "list" -> v.len = 0
      [] v.kind = "str" -> v.len = 0
      [] v.kind = "int" -> v.n = 0
      [] v.kind = "bool" -> ~v.b

\* policy_engine.calculate_impacts(policy_inputs) as the route calls it: a
\* value that is no dict has no .get, and the first policy_inputs.get
\* raises AttributeError.
EngineCall(v) ==
    IF v.kind = "dict"
        THEN calculate_impacts(policy_costs, bau_projection, v.items)
    ELSE [ status |-> "raised", exception |-> "AttributeError" ]

\* jsonify({...}), code: the three responses of the route.
MissingInputsResponse ==
    [ code |-> 400, success |-> FALSE, error |-> "Missing policy inputs" ]

ErrorResponse(exception) ==
    [ code |-> 500, success |-> FALSE, error |-> exception ]

SuccessResponse(results) ==
    [ code |-> 200, success |-> TRUE, data |-> results ]

\* A request reaches the route, once the one before it is answered.
ArriveRoute ==
    /\ route.pc \in {"idle", "answered"}
    /\ \E body \in Bodies :
          route' = [ pc |-> "received", body |-> body ]
    /\ policy_inputs' = << >>
    /\ result' = NoResult
    /\ op' = "none"
    /\ UNCHANGED <<historical_temperature_data, policy_costs, bau_projection,
                   baseline, pending, tie, memo, calls>>

\* The engine is called when the parsing raised nothing and the test
\* "if not policy_inputs" let the body through.
EngineInvoked(parsed) == parsed.exc = "none" /\ ~IsFalsy(parsed.value)

\* The response of the path taken, results being what the engine call
\* gave when the path has one.
RouteResponse(parsed, results) ==
    IF parsed.exc # "none" THEN ErrorResponse(parsed.exc)
    ELSE IF IsFalsy(parsed.value) THEN MissingInputsResponse
    ELSE IF results.status = "raised" THEN ErrorResponse(results.exception)
    ELSE SuccessResponse(results)

\* calculate_policy_impact(): parse, test, call the engine, answer; an
\* exception anywhere in the try block is answered by the except clause.
CalculatePolicyImpact ==
    /\ route.pc = "received"
    /\ \E parsed \in get_json(route.body) :
          /\ result' = IF EngineInvoked(parsed) THEN EngineCall(parsed.value)
                        ELSE NoResult
          /\ op' = IF EngineInvoked(parsed) THEN "calculate_impacts" ELSE "none"
          /\ policy_inputs' =
                IF EngineInvoked(parsed) /\ parsed.value.kind = "dict"
                    THEN parsed.value.items ELSE << >>
          /\ route' = [ pc |-> "answered", body |-> route.body,
                        parsed |-> parsed, invoked |-> EngineInvoked(parsed),
                        responses |-> << RouteResponse(parsed, result') >> ]
    /\ UNCHANGED <<historical_temperature_data, policy_costs, bau_projection,
                   baseline, pending, tie, memo, calls>>

InitRoute == EngineInit /\ pending = NoRequest

NextRoute == ArriveRoute \/ CalculatePolicyImpact

SpecRoute == InitRoute /\ [][NextRoute]_vars

---------------------------------------------------------------------------
(* Properties.  Units as in the result: cents, 1/1000 degC, tenths of a    *)
(* percent.                                                                *)

\* The latest call was calculate_impacts and it returned its dict.
Returned == op = "calculate_impacts" /\ result.status = "returned"

LabelOf(k) == POLICY_COSTS[k].label

LeverOfLabel(l) == CHOOSE k \in Levers : POLICY_COSTS[k].label = l

\* The raw value the request holds for lever k; absent when it holds none.
Supplied(k) == DictGet(policy_inputs, k, Raw("absent", 0))

\* The levers with a level above 0 in the echo of the sanitized levels, in
\* the fixed lever order.
AppliedLevers == SelectSeq(LeverOrder, LAMBDA k : result.policies_applied[k] > 0)

\* ---- C1 ----------------------------------------------------------------
\* C1: when all eight levels sanitize to 0 the result has total_cost 0,
\* temperature_mitigation 0, empty policy_breakdown, fiscal_treemap and
\* efficiency_index, bankruptcy_flag false, and a trend line of 25 points
\* that each carry the BAU anomaly of their year and mitigation_applied 0.
C1_AllZeroIsBau ==
    (Returned /\ \A k \in Levers : result.policies_applied[k] = 0) =>
        /\ result.total_cost = 0
        /\ result.temperature_mitigation = 0
        /\ result.policy_breakdown = << >>
        /\ result.fiscal_treemap = << >>
        /\ result.efficiency_index = << >>
        /\ result.bankruptcy_flag = FALSE
        /\ Len(result.trend_line) = 25
        /\ \A i \in 1..25 :
              /\ result.trend_line[i].year = BAU_PROJECTION[i].year
              /\ result.trend_line[i].anomaly = 10 * BAU_PROJECTION[i].anomaly
              /\ result.trend_line[i].mitigation_applied = 0

\* An all-zero result that came from a request holding raw values that are
\* not 0: text under one key, a negative number under another.
C1_Witness ==
    /\ Returned
    /\ \A k \in Levers : result.policies_applied[k] = 0
    /\ \E k \in Levers : Supplied(k).kind = "text"
    /\ Len(result.trend_line) = 25

\* ---- C2 ----------------------------------------------------------------
\* C2: for every combination of levels the temperature impact recorded for
\* an active lever is <= 0 and not below that lever's max_impact.
C2_ImpactWithinCap ==
    Returned =>
        \A i \in 1..Len(result.policy_breakdown) :
            LET e == result.policy_breakdown[i]
                k == LeverOfLabel(e.policy)
            IN  /\ e.temperature_impact <= 0
                /\ POLICY_COSTS[k].max_impact <= 10 * e.temperature_impact

\* Several levers active at once, one at its cap and one below its cap.
C2_Witness ==
    /\ Returned
    /\ Len(result.policy_breakdown) >= 3
    /\ \E i \in 1..Len(result.policy_breakdown) :
          LET e == result.policy_breakdown[i]
          IN  e.level = 100 /\
              10 * e.temperature_impact = POLICY_COSTS[LeverOfLabel(e.policy)].max_impact
    /\ \E i \in 1..Len(result.policy_breakdown) :
          LET e == result.policy_breakdown[i]
          IN  e.level < 100 /\ e.temperature_impact < 0 /\
              10 * e.temperature_impact > POLICY_COSTS[LeverOfLabel(e.policy)].max_impact

\* ---- C3 ----------------------------------------------------------------
\* What the claim says sanitize_slider_value yields for a raw value: 0 when
\* the numeric coercion fails or the key is absent, else the number cut
\* toward zero and clamped into 0..100.
ClaimedLevel(value) ==
    IF value.kind \in {"num", "numstr"}
        THEN LET t == value.tenths
                 cut == IF t >= 0 THEN t \div 10 ELSE -((-t) \div 10)
             IN  IF cut < 0 THEN 0 ELSE IF cut > 100 THEN 100 ELSE cut
    ELSE IF value.kind = "inf"
        THEN (IF value.tenths > 0 THEN 100 ELSE 0)
    ELSE 0

\* C3: whatever raw value a lever carries, the level calculate_impacts
\* uses and echoes in policies_applied is the integer in 0..100 the claim
\* describes.
C3_EveryLevelSanitized ==
    op = "calculate_impacts" =>
        /\ result.status = "returned"
        /\ \A k \in Levers :
              /\ result.policies_applied[k] \in 0..100
              /\ result.policies_applied[k] = ClaimedLevel(Supplied(k))

\* ---- C4 ----------------------------------------------------------------
\* C4: calculate_impacts never fails on bad input: every call returns a
\* complete result with each malformed level coerced to 0.
C4_NoExceptionEscapes ==
    op = "calculate_impacts" =>
        /\ result.status = "returned"
        /\ \A k \in Levers :
              Supplied(k).kind \in {"text", "null", "container", "nan", "inf"} =>
                  result.policies_applied[k] = 0
        /\ Len(result.trend_line) = 25

\* ---- C5 ----------------------------------------------------------------
\* C5: bankruptcy_flag is true exactly when national_debt is above 1000
\* ($B; 100000 cents), and warning_message is the fixed literal exactly
\* when the flag is true, else null.
C5_FlagIffAboveThreshold ==
    Returned =>
        /\ result.bankruptcy_flag = (result.national_debt > 100000)
        /\ result.warning_message =
              (IF result.bankruptcy_flag THEN "ECONOMIC COLLAPSE IMMINENT" ELSE "None")

\* The largest debt there is (every paying lever at 100, no carbon tax:
\* $940B) and a debt above 100.
C5_Witness ==
    /\ Returned
    /\ result.national_debt = 94000
    /\ result.bankruptcy_flag = FALSE
    /\ result.warning_message = "None"

\* ---- C6 ----------------------------------------------------------------
TreemapPercentSum ==
    SumSeq(MapSeq(result.fiscal_treemap, LAMBDA e : e.percentage))

TreemapValueSum ==
    SumSeq(MapSeq(result.fiscal_treemap, LAMBDA e : e.value))

\* C6 as claimed: the percentages of a non-empty treemap sum to within
\* 0.2 of 100.
C6_TreemapWithin02 ==
    (Returned /\ result.fiscal_treemap # << >>) =>
        Abs(TreemapPercentSum - 1000) <= 2

\* C6 as amended: every percentage is the entry's share of the sum of the
\* positive-cost entries to within 0.05 (one rounding to 1 decimal), and
\* the percentages of a non-empty treemap sum to within 0.35 of 100.
C6_TreemapWithin035 ==
    (Returned /\ result.fiscal_treemap # << >>) =>
        /\ \A j \in 1..Len(result.fiscal_treemap) :
              LET e == result.fiscal_treemap[j]
              IN  2 * Abs(e.percentage * TreemapValueSum - 1000 * e.value)
                      <= TreemapValueSum
        /\ 10 * Abs(TreemapPercentSum - 1000) <= 35

\* Seven entries whose percentages sum to 100.3 or to 99.7.
C6_Witness ==
    /\ Returned
    /\ Len(result.fiscal_treemap) = 7
    /\ Abs(TreemapPercentSum - 1000) = 3

\* ---- C7 ----------------------------------------------------------------
\* The cost of lever k at the level applied, in cents.
CostInCents(k) == 10 * POLICY_COSTS[k].cost_per_unit * result.policies_applied[k]

\* C7: fiscal_treemap holds exactly the active levers of strictly positive
\* cost, so never carbon_tax; an active carbon_tax still has its
\* policy_breakdown entry, with its negative cost, and total_cost is the
\* sum of the treemap values plus the carbon_tax cost.
C7_TreemapExcludesRevenue ==
    Returned =>
        /\ MapSeq(result.fiscal_treemap, LAMBDA e : e.name) =
              MapSeq(SelectSeq(AppliedLevers, LAMBDA k : CostInCents(k) > 0), LabelOf)
        /\ \A j \in 1..Len(result.fiscal_treemap) :
              /\ result.fiscal_treemap[j].name # LabelOf("carbon_tax")
              /\ result.fiscal_treemap[j].value =
                    CostInCents(LeverOfLabel(result.fiscal_treemap[j].name))
        /\ result.policies_applied["carbon_tax"] > 0 =>
              \E i \in 1..Len(result.policy_breakdown) :
                  /\ result.policy_breakdown[i].policy = LabelOf("carbon_tax")
                  /\ result.policy_breakdown[i].cost = CostInCents("carbon_tax")
                  /\ result.policy_breakdown[i].cost < 0
        /\ result.total_cost = TreemapValueSum + CostInCents("carbon_tax")

\* Carbon tax active beside paying levers, and a total below the treemap's.
C7_Witness ==
    /\ Returned
    /\ result.policies_applied["carbon_tax"] > 0
    /\ Len(result.fiscal_treemap) >= 2
    /\ result.total_cost < TreemapValueSum

\* ---- C8 ----------------------------------------------------------------
\* C8: a lever at level 0 has no entry in policy_breakdown, fiscal_treemap
\* or efficiency_index; a lever above 0 has exactly one entry in
\* policy_breakdown and one in efficiency_index; and the entries stand in
\* the fixed lever order whatever the key order of the request.
C8_EntriesInLeverOrder ==
    Returned =>
        /\ MapSeq(result.policy_breakdown, LAMBDA e : e.policy) =
              MapSeq(AppliedLevers, LabelOf)
        /\ MapSeq(result.efficiency_index, LAMBDA e : e.policy) =
              MapSeq(AppliedLevers, LabelOf)
        /\ \A i \in 1..Len(result.policy_breakdown) :
              result.policy_breakdown[i].level =
                  result.policies_applied[AppliedLevers[i]]
        /\ \A j \in 1..Len(result.fiscal_treemap) :
              result.policies_applied[LeverOfLabel(result.fiscal_treemap[j].name)] > 0

\* A request whose keys come in the opposite order, some levers at 0 and
\* several above.
C8_Witness ==
    /\ Returned
    /\ Len(policy_inputs) = 8
    /\ policy_inputs[1].key = "waste_management"
    /\ policy_inputs[8].key = "ev_adoption"
    /\ Len(result.policy_breakdown) \in 3..6
    /\ Len(result.efficiency_index) = Len(result.policy_breakdown)

\* ---- C9 ----------------------------------------------------------------
\* total_temp_mitigation, unrounded (1/10000 degC), from the levels applied.
TotalTempMitigation ==
    SumSeq(MapSeq(AppliedLevers,
                  LAMBDA k : LeverTempImpact(POLICY_COSTS, k, result.policies_applied[k])))

\* C9: trend_line has exactly 25 points, for 2026..2050 in ascending
\* order; the point of year y has the BAU value of y as bau_anomaly,
\* total_temp_mitigation * min(1, (y - 2026) / 9) as mitigation_applied and
\* bau_anomaly plus that mitigation as anomaly, each rounded to 3 decimals.
C9_TrendLineRamp ==
    Returned =>
        /\ Len(result.trend_line) = 25
        /\ \A i \in 1..25 :
              LET pt == result.trend_line[i]
                  y == 2025 + i
                  ramp9 == IF y - 2026 >= 9 THEN 9 ELSE y - 2026
                  bau100 == BAU_PROJECTION[i].anomaly
              IN  /\ pt.year = y
                  /\ BAU_PROJECTION[i].year = y
                  /\ pt.bau_anomaly = 10 * bau100
                  /\ pt.mitigation_applied =
                        RoundNearest(TotalTempMitigation * ramp9, 90)
                  /\ pt.anomaly =
                        RoundNearest(bau100 * 900 + TotalTempMitigation * ramp9, 90)

\* A mitigation that is still ramping in 2030 and complete from 2035 on.
C9_Witness ==
    /\ Returned
    /\ result.temperature_mitigation < 0
    /\ result.trend_line[5].mitigation_applied < 0
    /\ result.trend_line[5].mitigation_applied > result.trend_line[10].mitigation_applied
    /\ result.trend_line[10].mitigation_applied = result.trend_line[25].mitigation_applied
    /\ result.trend_line[25].anomaly < result.trend_line[25].bau_anomaly

\* ---- C10 ---------------------------------------------------------------
\* C10: a call of calculate_impacts returns what an earlier call with the
\* same input returned, whatever calls of calculate_impacts and of
\* get_baseline_state were made before and between the two.
C10_SameInputSameOutput ==
    (memo.status = "kept" /\ op = "calculate_impacts"
        /\ policy_inputs = memo.inputs) =>
            result = memo.result

\* A second call with the input of a remembered first call, both returning
\* a result with active levers.
C10_Witness ==
    /\ memo.status = "kept"
    /\ op = "calculate_impacts"
    /\ pending = NoRequest
    /\ policy_inputs = memo.inputs
    /\ memo.result.status = "returned"
    /\ Len(memo.result.policy_breakdown) = 8
    /\ result = memo.result

\* ---- C11 ---------------------------------------------------------------
\* What the call of request req returns when it is the only call ever made
\* on a freshly built engine.
AloneResult(req) ==
    IF req.call = "calculate_impacts"
        THEN calculate_impacts(POLICY_COSTS, BAU_PROJECTION, req.inputs)
    ELSE get_baseline_state(BASELINE_2026, HISTORICAL_TEMPERATURE_DATA,
                            BAU_PROJECTION)

\* C11: however the steps of the callers' calculate_impacts and
\* get_baseline_state calls interleave on the shared engine, the four
\* reference tables stay as loaded and every call that ends has the result
\* the same call has when it runs alone.
C11_CallsDoNotInterfere ==
    /\ policy_costs = POLICY_COSTS
    /\ bau_projection = BAU_PROJECTION
    /\ historical_temperature_data = HISTORICAL_TEMPERATURE_DATA
    /\ baseline = BASELINE_2026
    /\ \A c \in Callers :
          calls[c].pc = "done" => calls[c].result = AloneResult(calls[c].request)

\* Two calls that ran at the same time have both ended: a calculation with
\* all eight levers active that began while the other caller was inside a
\* call, and that other call.
C11_Witness ==
    \E c \in Callers, d \in Callers :
        /\ c # d
        /\ calls[c].pc = "done" /\ calls[d].pc = "done"
        /\ calls[c].overlapped /\ calls[d].overlapped
        /\ calls[c].request.call = "calculate_impacts"
        /\ calls[c].result.status = "returned"
        /\ Len(calls[c].result.policy_breakdown) = 8
        /\ calls[d].result.status = "returned"

\* ---- C12 ---------------------------------------------------------------
\* The values a request gives the eight lever keys, an absent key counting
\* as 0.
LeverValues(inputs) == [ k \in Levers |-> DictGet(inputs, k, Raw("num", 0)) ]

HasUnknownKey(inputs) == \E i \in 1..Len(inputs) : inputs[i].key \notin Levers

\* C12: two calls of calculate_impacts whose inputs give the eight lever
\* keys the same values (an absent key counting as 0) have identical
\* results whatever other keys either input holds, and policies_applied
\* has exactly the eight lever keys, each with its sanitized level.
C12_OnlyLeverKeysMatter ==
    /\ (memo.status = "kept" /\ op = "calculate_impacts"
            /\ LeverValues(policy_inputs) = LeverValues(memo.inputs)) =>
                result = memo.result
    /\ Returned =>
          /\ DOMAIN result.policies_applied = Levers
          /\ \A k \in Levers :
                result.policies_applied[k] = ClaimedLevel(Supplied(k))

\* A call whose input holds an unknown key with an infinite value beside
\* active levers, after a remembered call of the same lever values and no
\* unknown key: both returned the same result.
C12_Witness ==
    /\ memo.status = "kept"
    /\ Returned
    /\ HasUnknownKey(policy_inputs)
    /\ \E i \in 1..Len(policy_inputs) : policy_inputs[i].value.kind = "inf"
    /\ ~HasUnknownKey(memo.inputs)
    /\ LeverValues(policy_inputs) = LeverValues(memo.inputs)
    /\ Len(result.policy_breakdown) = 8
    /\ result = memo.result

\* ---- C13 ---------------------------------------------------------------
\* The score the claim gives lever k at the level applied, in hundredths:
\* with the impact in 1/10000 degC and the cost in tenths of $B,
\* |impact| * 1000 is |impact| * 10 hundredths and |impact| / cost * 1000
\* is |impact| * 100 / cost hundredths.
ClaimedEfficiency(k) ==
    LET level == result.policies_applied[k]
        cost == POLICY_COSTS[k].cost_per_unit * level
        impact == Max(POLICY_COSTS[k].temperature_impact * level,
                      POLICY_COSTS[k].max_impact)
    IN  IF cost <= 0 THEN Abs(impact) * 10
        ELSE RoundNearest(Abs(impact) * 100, cost)

\* The tier the claim attaches to a score in hundredths.
ClaimedTier(s) ==
    CASE s >= 100 -> "Excellent"
      [] s < 100 /\ s >= 50 -> "Good"
      [] s < 50 /\ s >= 20 -> "Moderate"
      [] s < 20 -> "Poor"

CarbonTaxAt50Only ==
    /\ Returned
    /\ result.policies_applied =
          [ k \in Levers |-> IF k = "carbon_tax" THEN 50 ELSE 0 ]

\* What C14 says of that result apart from the tier: total cost -40,
\* formatted "-$40.00B", no treemap entry, one efficiency entry, for the
\* carbon tax, with the score 75.0 of the cost <= 0 branch.
CarbonTaxAt50Figures ==
    /\ result.total_cost = -4000
    /\ result.total_cost_formatted =
          [ negative |-> TRUE, digits |-> 4000, suffix |-> "B" ]
    /\ result.fiscal_treemap = << >>
    /\ Len(result.efficiency_index) = 1
    /\ result.efficiency_index[1].policy = LabelOf("carbon_tax")
    /\ result.efficiency_index[1].efficiency = 7500

ClaimedRendering(f, num, den) ==
    LET a == Abs(num)
        unit == CASE a >= 1000 * den -> "T"
                  [] a < 1000 * den /\ a >= den -> "B"
                  [] a < den -> "M"
        \* |v| in hundredths of the unit is n / d
        n == CASE unit = "T" -> a * 100
               [] unit = "B" -> a * 100
               [] unit = "M" -> a * 1000 * 100
        d == IF unit = "T" THEN den * 1000 ELSE den
    IN  /\ f.suffix = unit
        /\ f.digits >= 0
        /\ 2 * Abs(f.digits * d - n) <= d
        /\ f.negative = (num < 0)

C15_WitnessCalculator ==
    /\ Returned
    /\ \E i \in 1..Len(result.policy_breakdown) :
          /\ result.policy_breakdown[i].cost_formatted.suffix = "M"
          /\ result.policy_breakdown[i].cost_formatted.digits = 80000
    /\ \E i \in 1..Len(result.policy_breakdown) :
          result.policy_breakdown[i].cost_formatted.negative
    /\ result.total_cost_formatted.suffix = "B"

\* ---- C16 ---------------------------------------------------------------
\* A point of a series as get_baseline_state returns it: year, anomaly
\* (hundredths) and the anomaly formatted with its sign and 2 decimals.
IsFormattedPoint(pt, year, anomaly) ==
    /\ pt.year = year
    /\ pt.anomaly = anomaly
    /\ pt.anomaly_formatted =
          [ sign |-> IF anomaly >= 0 THEN "+" ELSE "-",
            digits |-> Abs(anomaly), decimals |-> 2 ]

\* C16: whatever calls came before, get_baseline_state returns year 2026,
\* temperature_anomaly 1.2, national_debt 0, all eight levers at 0,
\* bau_projection with the 25 BAU points of 2026..2050 in order, and
\* historical_data with the 26 points of 2000..2025 in order and no BAU
\* point, every point with its formatted anomaly.
C16_BaselineState ==
    op = "get_baseline_state" =>
        /\ result.status = "returned"
        /\ result.year = 2026
        /\ result.temperature_anomaly = 120
        /\ result.national_debt = 0
        /\ result.policies = [ k \in Levers |-> 0 ]
        /\ Len(result.bau_projection) = 25
        /\ \A i \in 1..Len(result.bau_projection) :
              IsFormattedPoint(result.bau_projection[i], 2025 + i,
                               BAU_PROJECTION[i].anomaly)
        /\ Len(result.historical_data) = 26
        /\ \A i \in 1..Len(result.historical_data) :
              /\ result.historical_data[i].year < 2026
              /\ IsFormattedPoint(result.historical_data[i], 1999 + i,
                                  HISTORICAL_TEMPERATURE_DATA[i].anomaly)

\* get_baseline_state called after a calculation that applied all eight
\* levers was made and remembered.
C16_Witness ==
    /\ op = "get_baseline_state"
    /\ memo.status = "kept"
    /\ memo.result.status = "returned"
    /\ Len(memo.result.policy_breakdown) = 8
    /\ result.historical_data[26].year = 2025
    /\ result.bau_projection[1].year = 2026

\* ---- C17 ---------------------------------------------------------------
\* C17: the baseline state reports national_debt 0 formatted "$0.00B" and
\* temperature_anomaly 1.2 formatted "+1.20 degC".
C17_BaselineFormatted ==
    op = "get_baseline_state" =>
        /\ result.national_debt = 0
        /\ result.national_debt_formatted =
              [ negative |-> FALSE, digits |-> 0, suffix |-> "B" ]
        /\ result.temperature_anomaly = 120
        /\ result.temperature_formatted =
              [ sign |-> "+", digits |-> 120, decimals |-> 2 ]

\* ---- C18 ---------------------------------------------------------------
\* C18: every result has total_cost between -80 and 940 ($B), so
\* national_debt is never above the threshold 1000, bankruptcy_flag is
\* false and warning_message is null.
C18_BankruptcyUnreachable ==
    Returned =>
        /\ result.total_cost >= -8000
        /\ result.total_cost <= 94000
        /\ result.national_debt <= 100 * BANKRUPTCY_THRESHOLD
        /\ result.bankruptcy_flag = FALSE
        /\ result.warning_message = "None"

\* The lowest total there is: the carbon tax alone at 100, $80B of revenue.
C18_Witness ==
    /\ Returned
    /\ result.policies_applied["carbon_tax"] = 100
    /\ result.total_cost = -8000
    /\ result.bankruptcy_flag = FALSE

\* ---- C19 ---------------------------------------------------------------
\* C19: for each lever temperature_impact * level is max_impact at level
\* 100 and strictly inside the cap at every level 1..99, so the step
\* max(temp_impact, max_impact) leaves the value alone at every level and
\* the impact recorded for an active lever is temperature_impact * level
\* (to the 3 decimals of the record).
C19_CapNeverEngages ==
    /\ \A k \in Levers, l \in 1..100 :
          LET linear == policy_costs[k].temperature_impact * l
          IN  /\ (l = 100) => (linear = policy_costs[k].max_impact)
              /\ (l < 100) => (linear > policy_costs[k].max_impact)
              /\ LeverTempImpact(policy_costs, k, l) = linear
    /\ Returned =>
          \A i \in 1..Len(result.policy_breakdown) :
              LET e == result.policy_breakdown[i]
                  k == LeverOfLabel(e.policy)
              IN  e.temperature_impact =
                      RoundNearest(POLICY_COSTS[k].temperature_impact * e.level * 1000,
                                   TempDen)

\* All eight levers active, one of them at level 99 with a recorded impact
\* still inside its cap.
C19_Witness ==
    /\ Returned
    /\ Len(result.policy_breakdown) = 8
    /\ \E i \in 1..Len(result.policy_breakdown) :
          LET e == result.policy_breakdown[i]
          IN  /\ e.level = 99
              /\ 10 * e.temperature_impact >
                    POLICY_COSTS[LeverOfLabel(e.policy)].max_impact

\* ---- C20 ---------------------------------------------------------------
\* C20: in every result the total temperature mitigation is <= 0, the 2026
\* point of the trend line is the BAU anomaly with mitigation_applied 0,
\* mitigation_applied never rises from one year to the next, every point
\* from 2035 to 2050 carries the whole total mitigation, and no point's
\* anomaly is above its bau_anomaly.
C20_MonotoneRampIn ==
    Returned =>
        /\ result.temperature_mitigation <= 0
        /\ result.trend_line[1].year = 2026
        /\ result.trend_line[1].mitigation_applied = 0
        /\ result.trend_line[1].anomaly = result.trend_line[1].bau_anomaly
        /\ \A i \in 1..(Len(result.trend_line) - 1) :
              result.trend_line[i + 1].mitigation_applied
                  <= result.trend_line[i].mitigation_applied
        /\ \A i \in 1..Len(result.trend_line) :
              /\ result.trend_line[i].year >= 2035 =>
                    result.trend_line[i].mitigation_applied =
                        result.temperature_mitigation
              /\ result.trend_line[i].anomaly <= result.trend_line[i].bau_anomaly

\* The largest mitigation there is (every lever at 100, -0.76 degC): none
\* of it in 2026, part of it in 2027, all of it in 2035 and in 2050.
C20_Witness ==
    /\ Returned
    /\ result.temperature_mitigation = -760
    /\ result.trend_line[1].mitigation_applied = 0
    /\ result.trend_line[2].mitigation_applied \in -759..-1
    /\ result.trend_line[10].year = 2035
    /\ result.trend_line[10].mitigation_applied = -760
    /\ result.trend_line[25].mitigation_applied = -760

\* ---- C21 ---------------------------------------------------------------
\* A parsed body that is empty: the empty object, array or string.
IsEmptyBody(v) ==
    \/ v.kind = "dict" /\ v.items = << >>
    \/ v.kind = "list" /\ v.len = 0
    \/ v.kind = "str" /\ v.len = 0

\* The route has answered as the claim says, bodies of the set no_input
\* being those it refuses: exactly one response; 500 without success when
\* the parsing raised; 400 without success and without a call of the
\* engine for a body of no_input; otherwise the engine is called, and the
\* response is 500 without success when it raised, else 200 with success
\* and the engine's result as data.
RouteAnswers(no_input(_)) ==
    route.pc = "answered" =>
        /\ Len(route.responses) = 1
        /\ LET r == route.responses[1]
               v == route.parsed.value
           IN  IF route.parsed.exc # "none"
                   THEN r.code = 500 /\ ~r.success /\ op = "none"
               ELSE IF no_input(v)
                   THEN r.code = 400 /\ ~r.success /\ op = "none"
               ELSE /\ op = "calculate_impacts"
                    /\ IF result.status = "raised"
                           THEN r.code = 500 /\ ~r.success
                       ELSE /\ r.code = 200 /\ r.success
                            /\ v.kind = "dict"
                            /\ r.data = result
                            /\ r.data = AloneResult(CalculateRequest(v.items))

\* C21 as claimed: the body refused with 400 is the missing or the empty
\* one, the empty object {} included.
C21_OneResponsePerRequest ==
    RouteAnswers(LAMBDA v : v.kind = "none" \/ IsEmptyBody(v))

\* C21 as amended: the body refused with 400 is any one Python counts as
\* false: missing (None), empty, the number 0, the boolean false.
C21_OneResponsePerFalsyRequest ==
    RouteAnswers(LAMBDA v : v.kind = "none" \/ IsEmptyBody(v)
                              \/ (v.kind = "int" /\ v.n = 0)
                              \/ (v.kind = "bool" /\ ~v.b))

\* The empty object {} answered with the one response 400 "Missing policy
\* inputs", the engine not called.
C21_Witness ==
    /\ route.pc = "answered"
    /\ route.body = JsonBody(JsonDict(<< >>))
    /\ route.responses = << MissingInputsResponse >>
    /\ ~route.invoked
    /\ op = "none"

============================================================================
